---- MODULE Spec2Model ----
(***************************************************************************)
(* A model of graphz-core: the columnar node and edge tables, the graph    *)
(* builder, the four searches (breath_first_search, depth_first_search,    *)
(* dijkstra_search, a_search) and the structural predicates is_complete,   *)
(* is_connected and is_acyclic.                                            *)
(*                                                                         *)
(* Conventions.                                                            *)
(*  - Option<T>: None is <<>>, Some(v) is <<v>>.                           *)
(*  - An f64 weight is an integer number of half units: 5 stands for 2.5,  *)
(*    -3 for -1.5.  The cast `as u32` truncates towards zero and           *)
(*    saturates, see CastU32.                                              *)
(*  - u32 costs are modelled with CostBits bits: U32_MAX is 2^CostBits - 1 *)
(*    and stands for u32::MAX.                                             *)
(*  - Row indices are 0-based as in the code; a column is a sequence, so   *)
(*    row idx is element idx + 1.                                          *)
(*  - One action models one operation, or one iteration of the operation's *)
(*    outer loop together with everything that iteration does.             *)
(***************************************************************************)
EXTENDS Integers, Sequences, FiniteSets, TLC

VARIABLES
    builder,    \* GraphBuilder: [nodes: Option<Vec<Node>>, edges: Option<Vec<Edge>>]
    graph,      \* Option<Graph>: the graph build() returned
    pc,         \* position of the program
    call,       \* the running operation and its arguments [op, start, end]
    bfs,        \* locals of breath_first_search: [visited, queue]
    dfs,        \* locals of depth_first_search: [visited, stack]
    dij,        \* locals of dijkstra_search: [dist, prev, heap]
    ast,        \* locals of a_search: [g_score, came_from, open_set]
    acy,        \* locals of is_acyclic: [visited, stack, recursion_stack, i]
    results,    \* results of the operations that returned, by operation name
    overflow_checks, \* Option<bool>: whether the build checks integer overflow,
                \* None until an overflow has shown it
    tables      \* Option<[node: NodeRecordBatch, edge: EdgeRecordBatch]>: the
                \* tables a caller holds outside of a Graph

vars == <<builder, graph, pc, call, bfs, dfs, dij, ast, acy, results, overflow_checks,
          tables>>

----------------------------------------------------------------------------
(* Bounds of the model. *)

MaxNode == 3
MaxEdges == 3
MaxExplicitNodes == 2
MaxPath == 5
MaxPermutedPath == 4
MaxComplete == 5
MaxWeightedPath == 3
CostBits == 3

----------------------------------------------------------------------------
(* Generic helpers. *)

None == <<>>
Some(v) == <<v>>
IsSome(o) == o /= <<>>
Unwrap(o) == o[1]

BoundedSeq(S, n) == UNION {[1..k -> S] : k \in 0..n}

RECURSIVE Pow2(_)
Pow2(n) == IF n = 0 THEN 1 ELSE 2 * Pow2(n - 1)

Min(S) == CHOOSE x \in S : \A y \in S : x <= y
Max(S) == CHOOSE x \in S : \A y \in S : x >= y

Range(s) == {s[i] : i \in 1..Len(s)}

----------------------------------------------------------------------------
(* types.rs (not among the sources; the aliases are read off their uses):  *)
(* NodeId is u32, Weight and Position are f64.                             *)

U32_MAX == Pow2(CostBits) - 1

\* `weight as u32`: a float-to-int cast truncates towards zero and saturates:
\* a negative weight gives 0, a weight above u32::MAX gives u32::MAX.
CastU32(w) ==
    IF w < 0 THEN 0
    ELSE IF w \div 2 > U32_MAX THEN U32_MAX
    ELSE w \div 2

F64Default == 0

\* Option::unwrap_or_default on an Option<f64>
UnwrapOrDefault(o) == IF IsSome(o) THEN Unwrap(o) ELSE F64Default

----------------------------------------------------------------------------
(* node.rs, edge.rs: rows and columnar tables. *)

Node(id) == [id |-> id, weight |-> None, position |-> None]
Edge(s, t, w) == [source_id |-> s, target_id |-> t, weight |-> w]

NodeSchema ==
    << <<"node", "UInt32", FALSE>>,
       <<"weight", "Float64", TRUE>>,
       <<"position", "Float64", TRUE>> >>

EdgeSchema ==
    << <<"source", "UInt32", FALSE>>,
       <<"target", "UInt32", FALSE>>,
       <<"weight", "Float64", TRUE>> >>

\* impl From<Vec<Node>> for NodeRecordBatch: the nullable columns keep None
NodeRecordBatchFrom(nodes) ==
    [schema   |-> NodeSchema,
     node     |-> [i \in 1..Len(nodes) |-> nodes[i].id],
     weight   |-> [i \in 1..Len(nodes) |-> nodes[i].weight],
     position |-> [i \in 1..Len(nodes) |-> nodes[i].position]]

\* impl From<Vec<Edge>> for EdgeRecordBatch: an absent weight is written as 0.0
EdgeRecordBatchFrom(edges) ==
    [schema |-> EdgeSchema,
     source |-> [i \in 1..Len(edges) |-> edges[i].source_id],
     target |-> [i \in 1..Len(edges) |-> edges[i].target_id],
     weight |-> [i \in 1..Len(edges) |-> UnwrapOrDefault(edges[i].weight)]]

----------------------------------------------------------------------------
(* graph.rs: Graph and its accessors.  The accessors return Result; every  *)
(* caller below unwraps them at an index below the row count of a table    *)
(* whose schema from_arrow_record_batches has accepted, so the value is    *)
(* returned.                                                               *)

num_nodes(g) == Len(g.node_record_batch.node)
num_edges(g) == Len(g.edge_record_batch.source)
node_id(g, idx) == g.node_record_batch.node[idx + 1]
source_id(g, idx) == g.edge_record_batch.source[idx + 1]
target_id(g, idx) == g.edge_record_batch.target[idx + 1]
\* EdgeRecordBatch::weight: data.value(idx).into(), always Some
weight(g, idx) == Some(g.edge_record_batch.weight[idx + 1])
edge(g, idx) == Edge(source_id(g, idx), target_id(g, idx), weight(g, idx))

\* The rows i, i+1, ..., num_edges-1 whose source is `node`, in row order.
RECURSIVE NeighborsFrom(_, _, _)
NeighborsFrom(g, node, i) ==
    IF i >= num_edges(g) THEN <<>>
    ELSE IF edge(g, i).source_id = node
         THEN <<edge(g, i).target_id>> \o NeighborsFrom(g, node, i + 1)
         ELSE NeighborsFrom(g, node, i + 1)

neighbors(g, node) == NeighborsFrom(g, node, 0)

RECURSIVE NeighborsWithWeightsFrom(_, _, _)
NeighborsWithWeightsFrom(g, node, i) ==
    IF i >= num_edges(g) THEN <<>>
    ELSE IF edge(g, i).source_id = node
         THEN << <<edge(g, i).target_id, UnwrapOrDefault(edge(g, i).weight)>> >>
              \o NeighborsWithWeightsFrom(g, node, i + 1)
         ELSE NeighborsWithWeightsFrom(g, node, i + 1)

neighbors_with_weights(g, node) == NeighborsWithWeightsFrom(g, node, 0)

\* from_arrow_record_batches with the edge schema checked first
from_arrow_record_batches_edge_first(node_record_batch, edge_record_batch) ==
    IF edge_record_batch.schema /= EdgeSchema
    THEN [ok |-> FALSE, err |-> "InvalidEdgeSchema", graph |-> None]
    ELSE IF node_record_batch.schema /= NodeSchema
    THEN [ok |-> FALSE, err |-> "InvalidNodeSchema", graph |-> None]
    ELSE [ok |-> TRUE, err |-> "",
          graph |-> Some([node_record_batch |-> node_record_batch,
                          edge_record_batch |-> edge_record_batch])]

\* Graph::from_arrow_record_batches: the node schema is checked first.
from_arrow_record_batches(node_record_batch, edge_record_batch) ==
    IF node_record_batch.schema /= NodeSchema
    THEN [ok |-> FALSE, err |-> "InvalidNodeSchema", graph |-> None]
    ELSE IF edge_record_batch.schema /= EdgeSchema
    THEN [ok |-> FALSE, err |-> "InvalidEdgeSchema", graph |-> None]
    ELSE [ok |-> TRUE, err |-> "",
          graph |-> Some([node_record_batch |-> node_record_batch,
                          edge_record_batch |-> edge_record_batch])]

\* nodes.iter().any(|node| node.id == id)
AnyNodeWithId(nodes, id) == \E k \in 1..Len(nodes) : nodes[k].id = id

\* build() with the target looked up among the nodes known before the edge
PushEndpointsStale(nodes, e) ==
    LET withSource == IF AnyNodeWithId(nodes, e.source_id) THEN nodes
                      ELSE Append(nodes, Node(e.source_id))
    IN  IF AnyNodeWithId(nodes, e.target_id) THEN withSource
        ELSE Append(withSource, Node(e.target_id))

\* One round of the loop of build(): the source is looked at before the target.
PushEndpoints(nodes, e) ==
    LET withSource == IF AnyNodeWithId(nodes, e.source_id) THEN nodes
                      ELSE Append(nodes, Node(e.source_id))
    IN  IF AnyNodeWithId(withSource, e.target_id) THEN withSource
        ELSE Append(withSource, Node(e.target_id))

\* The nodes build() derives from edges[i..], given those derived so far.
RECURSIVE DeriveNodes(_, _, _)
DeriveNodes(edges, i, nodes) ==
    IF i > Len(edges) THEN nodes
    ELSE DeriveNodes(edges, i + 1, PushEndpoints(nodes, edges[i]))

\* GraphBuilder::build
build(b) ==
    IF ~IsSome(b.edges)
    THEN [ok |-> FALSE, err |-> "EmptyGraph", graph |-> None]
    ELSE LET edges == Unwrap(b.edges)
             nodes == IF IsSome(b.nodes) THEN Unwrap(b.nodes)
                      ELSE DeriveNodes(edges, 1, <<>>)
         IN  from_arrow_record_batches(NodeRecordBatchFrom(nodes),
                                       EdgeRecordBatchFrom(edges))

----------------------------------------------------------------------------
(* What an operation returns. *)

RSome(path) == [kind |-> "Some", path |-> path, value |-> FALSE]
RNone == [kind |-> "None", path |-> <<>>, value |-> FALSE]
RBool(b) == [kind |-> "bool", path |-> <<>>, value |-> b]
\* the thread panics (an overflow check, an index on a missing key)
RPanic == [kind |-> "panic", path |-> <<>>, value |-> FALSE]
\* the call never returns
RHang == [kind |-> "hang", path |-> <<>>, value |-> FALSE]
ROk == [kind |-> "Ok", path |-> <<>>, value |-> FALSE]
RErr(e) == [kind |-> e, path |-> <<>>, value |-> FALSE]

Idle == [ret |-> None]

----------------------------------------------------------------------------
(* breath_first_search.rs *)

\* a queue that hands out its newest entry
pop_back(queue) ==
    [item |-> queue[Len(queue)], rest |-> SubSeq(queue, 1, Len(queue) - 1)]

\* VecDeque::pop_front
pop_front(queue) == [item |-> Head(queue), rest |-> Tail(queue)]

\* lines 7-9: the locals before the loop
BfsInit(start) ==
    [visited |-> {},
     queue   |-> << [node |-> start, path |-> <<start>>] >>,
     ret     |-> None]

\* lines 23-30: rows idx.. of the edge scan, pushing onto the back of `queue`
RECURSIVE BfsScan(_, _, _, _)
BfsScan(g, cur, idx, queue) ==
    IF idx >= num_edges(g) THEN queue
    ELSE IF source_id(g, idx) = cur.node
         THEN BfsScan(g, cur, idx + 1,
                      Append(queue, [node |-> target_id(g, idx),
                                     path |-> Append(cur.path, target_id(g, idx))]))
         ELSE BfsScan(g, cur, idx + 1, queue)

\* lines 11-36: one evaluation of the loop condition and, if an entry was
\* popped, the loop body
BfsIter(s, g, end) ==
    IF s.queue = <<>> THEN [s EXCEPT !.ret = Some(RNone)]
    ELSE LET popped == pop_front(s.queue)
             cur == popped.item
         IN  IF cur.node = end
             THEN [s EXCEPT !.queue = popped.rest, !.ret = Some(RSome(cur.path))]
             ELSE IF cur.node \in s.visited
             THEN [s EXCEPT !.queue = popped.rest]
             ELSE [s EXCEPT !.visited = s.visited \cup {cur.node},
                            !.queue = BfsScan(g, cur, 0, popped.rest)]

RECURSIVE BfsRun(_, _, _)
BfsRun(s, g, end) ==
    IF IsSome(s.ret) THEN Unwrap(s.ret) ELSE BfsRun(BfsIter(s, g, end), g, end)

\* breath_first_search as a function, for the callers inside the library
breath_first_search(g, start, end) == BfsRun(BfsInit(start), g, end)

----------------------------------------------------------------------------
(* depth_first_search.rs *)

\* Vec::pop
pop(stack) == [item |-> stack[Len(stack)], rest |-> SubSeq(stack, 1, Len(stack) - 1)]

\* lines 7-10
DfsInit(start) ==
    [visited |-> {},
     stack   |-> << [node |-> start, path |-> <<start>>] >>,
     ret     |-> None]

\* lines 24-35: rows idx.. of the edge scan; a target already visited is not pushed
RECURSIVE DfsScan(_, _, _, _, _)
DfsScan(g, cur, idx, visited, stack) ==
    IF idx >= num_edges(g) THEN stack
    ELSE IF source_id(g, idx) = cur.node /\ target_id(g, idx) \notin visited
         THEN DfsScan(g, cur, idx + 1, visited,
                      Append(stack, [node |-> target_id(g, idx),
                                     path |-> Append(cur.path, target_id(g, idx))]))
         ELSE DfsScan(g, cur, idx + 1, visited, stack)

\* lines 12-42
DfsIter(s, g, end) ==
    IF s.stack = <<>> THEN [s EXCEPT !.ret = Some(RNone)]
    ELSE LET popped == pop(s.stack)
             cur == popped.item
         IN  IF cur.node = end
             THEN [s EXCEPT !.stack = popped.rest, !.ret = Some(RSome(cur.path))]
             ELSE IF cur.node \notin s.visited
             THEN LET visited == s.visited \cup {cur.node}
                  IN  [s EXCEPT !.visited = visited,
                                !.stack = DfsScan(g, cur, 0, visited, popped.rest)]
             ELSE [s EXCEPT !.stack = popped.rest]

----------------------------------------------------------------------------
(* dijkstra_search.rs *)

\* HashMap::insert
Insert(m, k, v) == (k :> v) @@ m

\* u32 addition.  With overflow checks (debug builds) a sum above u32::MAX
\* panics; without them (release builds) it wraps.
AddU32(a, b) ==
    [overflow |-> a + b > U32_MAX, value |-> (a + b) % (U32_MAX + 1)]

\* impl Ord for State compares the costs only, reversed: BinaryHeap::pop gives
\* an entry of the least cost; which one among equals is up to the heap.
PopCandidates(heap) ==
    {k \in 1..Len(heap) : \A j \in 1..Len(heap) : heap[k].cost <= heap[j].cost}

RemoveAt(seq, k) == SubSeq(seq, 1, k - 1) \o SubSeq(seq, k + 1, Len(seq))

\* the walk back without path.reverse()
RECURSIVE WalkBackNoReverse(_, _, _, _)
WalkBackNoReverse(prev, current, path, seen) ==
    IF current \notin DOMAIN prev THEN RSome(path)
    ELSE IF prev[current] \in seen THEN RHang
    ELSE WalkBackNoReverse(prev, prev[current], Append(path, prev[current]),
                           seen \cup {prev[current]})

\* lines 41-48: walk `prev` back from `current`; `path` is still reversed.
\* A walk that comes back to a node it has left never ends.
RECURSIVE WalkBack(_, _, _, _)
WalkBack(prev, current, path, seen) ==
    IF current \notin DOMAIN prev THEN RSome([i \in 1..Len(path) |-> path[Len(path) + 1 - i]])
    ELSE IF prev[current] \in seen THEN RHang
    ELSE WalkBack(prev, prev[current], Append(path, prev[current]),
                  seen \cup {prev[current]})

ReconstructPath(prev, end) == WalkBack(prev, end, <<end>>, {end})

\* lines 34-35: the locals before the loop
DijInit(start) ==
    [dist |-> (start :> 0),
     prev |-> << >>,
     heap |-> << [cost |-> 0, position |-> start] >>,
     ret  |-> None,
     overflowed |-> FALSE]

\* lines 57-66: neighbours k.. of the popped state
RECURSIVE DijRelax(_, _, _, _, _, _)
DijRelax(s, neigh, k, cost, position, checks) ==
    IF k > Len(neigh) THEN s
    ELSE LET sum == AddU32(cost, CastU32(neigh[k][2]))
             next == [cost |-> sum.value, position |-> neigh[k][1]]
         IN  IF sum.overflow /\ checks
             THEN [s EXCEPT !.ret = Some(RPanic)]
             ELSE LET t == [s EXCEPT !.overflowed = s.overflowed \/ sum.overflow]
                  IN  IF next.position \notin DOMAIN t.dist
                         \/ next.cost < t.dist[next.position]
                      THEN DijRelax([t EXCEPT !.heap = Append(t.heap, next),
                                              !.dist = Insert(t.dist, next.position, next.cost),
                                              !.prev = Insert(t.prev, next.position, position)],
                                    neigh, k + 1, cost, position, checks)
                      ELSE DijRelax(t, neigh, k + 1, cost, position, checks)

\* lines 38-76: one evaluation of the loop condition and, if a state was
\* popped, the loop body; k is the heap entry pop() gives
DijIter(s, g, end, k, checks) ==
    IF s.heap = <<>> THEN [s EXCEPT !.ret = Some(RNone)]
    ELSE LET cost == s.heap[k].cost
             position == s.heap[k].position
             rest == [s EXCEPT !.heap = RemoveAt(s.heap, k)]
         IN  IF position = end
             THEN [rest EXCEPT !.ret = Some(ReconstructPath(s.prev, end))]
             ELSE IF position \notin DOMAIN s.dist
             THEN [rest EXCEPT !.ret = Some(RPanic)]
             ELSE IF cost > s.dist[position]
             THEN rest
             ELSE DijRelax(rest, neighbors_with_weights(g, position), 1,
                           cost, position, checks)

----------------------------------------------------------------------------
(* a_search.rs *)

\* lines 40-43
ASearchInit(start) ==
    [g_score   |-> (start :> 0),
     came_from |-> << >>,
     open_set  |-> << [cost |-> 0, position |-> start] >>,
     ret       |-> None,
     overflowed |-> FALSE]

\* *g_score.get(&neighbor).unwrap_or(&u32::MAX)
GScoreOrMax(g_score, neighbor) ==
    IF neighbor \in DOMAIN g_score THEN g_score[neighbor] ELSE U32_MAX

\* lines 57-66: neighbours k.. of the popped position
RECURSIVE ASearchRelax(_, _, _, _, _)
ASearchRelax(s, neigh, k, position, checks) ==
    IF k > Len(neigh) THEN s
    ELSE IF position \notin DOMAIN s.g_score
    THEN [s EXCEPT !.ret = Some(RPanic)]
    ELSE LET sum == AddU32(s.g_score[position], CastU32(neigh[k][2]))
             neighbor == neigh[k][1]
             tentative_g_score == sum.value
         IN  IF sum.overflow /\ checks
             THEN [s EXCEPT !.ret = Some(RPanic)]
             ELSE LET t == [s EXCEPT !.overflowed = s.overflowed \/ sum.overflow]
                  IN  IF tentative_g_score < GScoreOrMax(t.g_score, neighbor)
                      THEN ASearchRelax(
                               [t EXCEPT !.came_from = Insert(t.came_from, neighbor, position),
                                         !.g_score = Insert(t.g_score, neighbor, tentative_g_score),
                                         !.open_set = Append(t.open_set,
                                             [cost |-> tentative_g_score, position |-> neighbor])],
                               neigh, k + 1, position, checks)
                      ELSE ASearchRelax(t, neigh, k + 1, position, checks)

\* lines 44-69
ASearchIter(s, g, end, k, checks) ==
    IF s.open_set = <<>> THEN [s EXCEPT !.ret = Some(RNone)]
    ELSE LET position == s.open_set[k].position
             rest == [s EXCEPT !.open_set = RemoveAt(s.open_set, k)]
         IN  IF position = end
             THEN [rest EXCEPT !.ret = Some(ReconstructPath(s.came_from, end))]
             ELSE ASearchRelax(rest, neighbors_with_weights(g, position), 1,
                               position, checks)

----------------------------------------------------------------------------
(* graph_type.rs *)

UsizeBits == 8
USIZE_MAX == Pow2(UsizeBits) - 1

\* usize subtraction and multiplication: with overflow checks a result out
\* of range panics, without them it wraps.
SubUsize(a, b) ==
    [overflow |-> a - b < 0, value |-> (a - b) % (USIZE_MAX + 1)]
MulUsize(a, b) ==
    [overflow |-> a * b > USIZE_MAX, value |-> (a * b) % (USIZE_MAX + 1)]

\* Graph::is_complete, lines 5-19
is_complete(g, checks) ==
    LET n == num_nodes(g)
        e == num_edges(g)
        pred == SubUsize(n, 1)
        prod == MulUsize(n, pred.value)
        expected_edges == prod.value \div 2
    IN  IF (pred.overflow \/ prod.overflow) /\ checks THEN RPanic
        ELSE IF expected_edges /= e THEN RBool(FALSE)
        ELSE IF n = 1 THEN RBool(FALSE)
        ELSE RBool(TRUE)

IsCompleteOverflows(g) ==
    SubUsize(num_nodes(g), 1).overflow
    \/ MulUsize(num_nodes(g), SubUsize(num_nodes(g), 1).value).overflow

\* slice::sort on the node ids: insertion of x into a sorted sequence
RECURSIVE InsertSorted(_, _)
InsertSorted(sorted, x) ==
    IF sorted = <<>> THEN <<x>>
    ELSE IF x < Head(sorted) THEN <<x>> \o sorted
    ELSE <<Head(sorted)>> \o InsertSorted(Tail(sorted), x)

RECURSIVE SortFrom(_, _, _)
SortFrom(ids, i, sorted) ==
    IF i > Len(ids) THEN sorted
    ELSE SortFrom(ids, i + 1, InsertSorted(sorted, ids[i]))

\* the node ids left in table order
unsorted(ids) == ids

sort(ids) == SortFrom(ids, 1, <<>>)

\* Graph::is_connected, lines 21-33
is_connected(g) ==
    IF num_nodes(g) = 0 THEN RBool(FALSE)
    ELSE LET node_ids == sort([i \in 1..num_nodes(g) |-> node_id(g, i - 1)])
             result == breath_first_search(g, node_ids[1], node_ids[Len(node_ids)])
         IN  RBool(result.kind = "Some")

\* lines 37-38: the locals of is_acyclic; i is the index of the outer loop,
\* looping tells that the inner loop of round i is running
AcyInit ==
    [visited |-> {}, stack |-> <<>>, recursion_stack |-> {},
     i |-> 0, looping |-> FALSE, ret |-> None]

\* the neighbour scan without the recursion_stack test of line 57
RECURSIVE AcyScanNoStack(_, _, _)
AcyScanNoStack(s, neigh, k) ==
    IF k > Len(neigh) THEN s
    ELSE IF neigh[k] \notin s.visited
    THEN AcyScanNoStack([s EXCEPT !.stack = Append(s.stack, neigh[k]),
                                  !.recursion_stack = s.recursion_stack \cup {neigh[k]}],
                        neigh, k + 1)
    ELSE AcyScanNoStack(s, neigh, k + 1)

\* lines 53-60: neighbours k.. of the popped node
RECURSIVE AcyScan(_, _, _)
AcyScan(s, neigh, k) ==
    IF k > Len(neigh) THEN s
    ELSE IF neigh[k] \notin s.visited
    THEN AcyScan([s EXCEPT !.stack = Append(s.stack, neigh[k]),
                           !.recursion_stack = s.recursion_stack \cup {neigh[k]}],
                 neigh, k + 1)
    ELSE IF neigh[k] \in s.recursion_stack
    THEN [s EXCEPT !.ret = Some(RBool(FALSE))]
    ELSE AcyScan(s, neigh, k + 1)

\* the inner loop taking a node off recursion_stack when it pops it
AcyInnerBacktracking(s, g) ==
    IF s.stack = <<>>
    THEN [s EXCEPT !.recursion_stack = {}, !.i = s.i + 1, !.looping = FALSE]
    ELSE LET popped == pop(s.stack)
             current_node_id == popped.item
         IN  IF current_node_id \in s.visited
             THEN [s EXCEPT !.stack = popped.rest, !.ret = Some(RBool(FALSE))]
             ELSE AcyScan([s EXCEPT !.stack = popped.rest,
                                    !.visited = s.visited \cup {current_node_id},
                                    !.recursion_stack =
                                        s.recursion_stack \ {current_node_id}],
                          neighbors(g, current_node_id), 1)

\* lines 46-61: one evaluation of the inner loop's condition and, if a node
\* was popped, its body; once the stack is empty, line 62 and the next round
AcyInner(s, g) ==
    IF s.stack = <<>>
    THEN [s EXCEPT !.recursion_stack = {}, !.i = s.i + 1, !.looping = FALSE]
    ELSE LET popped == pop(s.stack)
             current_node_id == popped.item
         IN  IF current_node_id \in s.visited
             THEN [s EXCEPT !.stack = popped.rest, !.ret = Some(RBool(FALSE))]
             ELSE AcyScan([s EXCEPT !.stack = popped.rest,
                                    !.visited = s.visited \cup {current_node_id}],
                          neighbors(g, current_node_id), 1)

\* the outer loop without the visited test of line 42
AcyOuterRevisit(s, g) ==
    IF s.i >= num_nodes(g) THEN [s EXCEPT !.ret = Some(RBool(TRUE))]
    ELSE [s EXCEPT !.stack = Append(s.stack, node_id(g, s.i)),
                   !.recursion_stack = s.recursion_stack \cup {node_id(g, s.i)},
                   !.looping = TRUE]

\* lines 40-44 and 65: the head of round i of the outer loop
AcyOuter(s, g) ==
    IF s.i >= num_nodes(g) THEN [s EXCEPT !.ret = Some(RBool(TRUE))]
    ELSE LET start_node_id == node_id(g, s.i)
         IN  IF start_node_id \notin s.visited
             THEN [s EXCEPT !.stack = Append(s.stack, start_node_id),
                            !.recursion_stack = s.recursion_stack \cup {start_node_id},
                            !.looping = TRUE]
             ELSE [s EXCEPT !.i = s.i + 1]

AcyIter(s, g) == IF s.looping THEN AcyInner(s, g) ELSE AcyOuter(s, g)

----------------------------------------------------------------------------
(* The inputs: what a caller hands to the builder and to the operations. *)

Ids == 1..MaxNode

UnweightedEdges == {Edge(s, t, None) : s \in Ids, t \in Ids}

\* Weights: absent, 2.5, u32::MAX - 1 and u32::MAX as floats.
Weights == {None, Some(5), Some(2 * (U32_MAX - 1)), Some(2 * U32_MAX)}

WeightedEdges == {Edge(s, t, w) : s \in Ids, t \in Ids, w \in Weights}

\* the weights of the tests' edges: none, and i for edge i
NoWeight(k) == [i \in 1..k |-> None]
TestWeight(k) == [i \in 1..k |-> Some(2 * i)]
\* a negative weight, -1.5, on every edge
NegativeWeight(k) == [i \in 1..k |-> Some(-3)]

\* the edges (i -> i+1), i = 1..k, of the tests; weights[i] is the weight of edge i
PathEdges(k, weights) == [i \in 1..k |-> Edge(i, i + 1, weights[i])]

\* the edges (i -> j), 0 <= i < j < n, of test_is_complete, in its row order
RECURSIVE CompleteEdges(_, _, _)
CompleteEdges(n, i, j) ==
    IF i >= n - 1 THEN <<>>
    ELSE IF j >= n THEN CompleteEdges(n, i + 1, i + 2)
    ELSE <<Edge(i, j, None)>> \o CompleteEdges(n, i, j + 1)

EdgesOnly(edgeLists) == {[nodes |-> None, edges |-> Some(es)] : es \in edgeLists}

GeneralInputs == EdgesOnly(BoundedSeq(UnweightedEdges, MaxEdges))

\* a node list of the caller's, with no edge or a single one
ExplicitInputs ==
    {[nodes |-> Some(ns), edges |-> Some(es)] :
        ns \in BoundedSeq({Node(i) : i \in Ids}, MaxExplicitNodes),
        es \in {<<>>} \cup {<<e>> : e \in UnweightedEdges}}

NoEdgesInputs ==
    {[nodes |-> None, edges |-> None], [nodes |-> Some(<<Node(1)>>), edges |-> None]}

\* the rows of `edges` in every order
Permuted(edges) ==
    {[i \in 1..Len(edges) |-> edges[p[i]]] :
        p \in {q \in [1..Len(edges) -> 1..Len(edges)] :
                  \A i, j \in 1..Len(edges) : q[i] = q[j] => i = j}}

\* a path, and a path closed into a cycle by an edge from its last node to its first
ClosedPathEdges(k) == Append(PathEdges(k, NoWeight(k)), Edge(k + 1, 1, None))

PathInputs ==
    EdgesOnly({PathEdges(k, NoWeight(k)) : k \in 1..MaxPath}
              \cup {ClosedPathEdges(k) : k \in 1..MaxPath}
              \cup UNION {Permuted(PathEdges(k, NoWeight(k))) : k \in 1..MaxPermutedPath}
              \cup UNION {Permuted(ClosedPathEdges(k)) : k \in 1..MaxPermutedPath - 1})

CompleteInputs ==
    LET all(n) == CompleteEdges(n, 0, 1)
    IN  EdgesOnly({all(n) : n \in 2..MaxComplete}
                  \cup {RemoveAt(all(n), k) : n \in {MaxComplete},
                                              k \in 1..Len(all(MaxComplete))})

WeightedInputs ==
    EdgesOnly(BoundedSeq(WeightedEdges, MaxEdges)
              \cup {PathEdges(k, TestWeight(k)) : k \in 1..MaxWeightedPath}
              \cup {PathEdges(k, NegativeWeight(k)) : k \in 1..MaxWeightedPath})

\* the ids a caller asks about: those of the graph and one that is not in it
GraphIds(g) ==
    Range(g.node_record_batch.node) \cup Range(g.edge_record_batch.source)
        \cup Range(g.edge_record_batch.target)
CallIds(g) == GraphIds(g) \cup {Max(GraphIds(g) \cup {0}) + 1}

----------------------------------------------------------------------------
(* The state machine. *)

InitWith(inputs) ==
    /\ builder \in inputs
    /\ graph = None
    /\ pc = "builder"
    /\ call = [op |-> "build", start |-> 0, end |-> 0]
    /\ bfs = Idle
    /\ dfs = Idle
    /\ dij = Idle
    /\ ast = Idle
    /\ acy = Idle
    /\ results = << >>
    /\ overflow_checks = None
    /\ tables = None

Init ==
    InitWith(GeneralInputs \cup ExplicitInputs \cup NoEdgesInputs
             \cup PathInputs \cup CompleteInputs)

InitW == InitWith(WeightedInputs)

G == Unwrap(graph)

\* the overflow behaviour a step may show: that of the build, once known
Checks == IF IsSome(overflow_checks) THEN {Unwrap(overflow_checks)} ELSE BOOLEAN

\* an operation returns r
Return(op, r) == results' = Insert(results, op, r)

Build ==
    /\ pc = "builder"
    /\ LET r == build(builder)
       IN  /\ graph' = r.graph
           /\ pc' = IF r.ok THEN "ready" ELSE "failed"
           /\ Return("build", IF r.ok THEN ROk ELSE RErr(r.err))
    /\ UNCHANGED <<tables, builder, call, bfs, dfs, dij, ast, acy, overflow_checks>>

CallBfs ==
    /\ pc = "ready"
    /\ \E start \in CallIds(G), end \in CallIds(G) :
          /\ call' = [op |-> "breath_first_search", start |-> start, end |-> end]
          /\ bfs' = BfsInit(start)
    /\ pc' = "breath_first_search"
    /\ UNCHANGED <<tables, builder, graph, dfs, dij, ast, acy, results, overflow_checks>>

BfsStep ==
    /\ pc = "breath_first_search"
    /\ bfs' = BfsIter(bfs, G, call.end)
    /\ IF IsSome(bfs'.ret)
       THEN pc' = "done" /\ Return(call.op, Unwrap(bfs'.ret))
       ELSE UNCHANGED <<pc, results>>
    /\ UNCHANGED <<tables, builder, graph, call, dfs, dij, ast, acy, overflow_checks>>

CallDfs ==
    /\ pc = "ready"
    /\ \E start \in CallIds(G), end \in CallIds(G) :
          /\ call' = [op |-> "depth_first_search", start |-> start, end |-> end]
          /\ dfs' = DfsInit(start)
    /\ pc' = "depth_first_search"
    /\ UNCHANGED <<tables, builder, graph, bfs, dij, ast, acy, results, overflow_checks>>

DfsStep ==
    /\ pc = "depth_first_search"
    /\ dfs' = DfsIter(dfs, G, call.end)
    /\ IF IsSome(dfs'.ret)
       THEN pc' = "done" /\ Return(call.op, Unwrap(dfs'.ret))
       ELSE UNCHANGED <<pc, results>>
    /\ UNCHANGED <<tables, builder, graph, call, bfs, dij, ast, acy, overflow_checks>>

IsComplete ==
    /\ pc = "ready"
    /\ \E checks \in Checks :
          /\ Return("is_complete", is_complete(G, checks))
          /\ overflow_checks' = IF IsCompleteOverflows(G) THEN Some(checks)
                                ELSE overflow_checks
    /\ call' = [op |-> "is_complete", start |-> 0, end |-> 0]
    /\ pc' = "done"
    /\ UNCHANGED <<tables, builder, graph, bfs, dfs, dij, ast, acy>>

IsConnected ==
    /\ pc = "ready"
    /\ Return("is_connected", is_connected(G))
    /\ call' = [op |-> "is_connected", start |-> 0, end |-> 0]
    /\ pc' = "done"
    /\ UNCHANGED <<tables, builder, graph, bfs, dfs, dij, ast, acy, overflow_checks>>

CallIsAcyclic ==
    /\ pc = "ready"
    /\ call' = [op |-> "is_acyclic", start |-> 0, end |-> 0]
    /\ acy' = AcyInit
    /\ pc' = "is_acyclic"
    /\ UNCHANGED <<tables, builder, graph, bfs, dfs, dij, ast, results, overflow_checks>>

AcyStep ==
    /\ pc = "is_acyclic"
    /\ acy' = AcyIter(acy, G)
    /\ IF IsSome(acy'.ret)
       THEN pc' = "done" /\ Return(call.op, Unwrap(acy'.ret))
       ELSE UNCHANGED <<pc, results>>
    /\ UNCHANGED <<tables, builder, graph, call, bfs, dfs, dij, ast, overflow_checks>>

CallDijkstra ==
    /\ pc = "ready"
    /\ \E start \in CallIds(G), end \in CallIds(G) :
          /\ call' = [op |-> "dijkstra_search", start |-> start, end |-> end]
          /\ dij' = DijInit(start)
    /\ pc' = "dijkstra_search"
    /\ UNCHANGED <<tables, builder, graph, bfs, dfs, ast, acy, results, overflow_checks>>

DijStep ==
    /\ pc = "dijkstra_search"
    /\ \E k \in (IF dij.heap = <<>> THEN {0} ELSE PopCandidates(dij.heap)),
          checks \in Checks :
          /\ dij' = DijIter([dij EXCEPT !.overflowed = FALSE], G, call.end, k, checks)
          /\ overflow_checks' =
                IF dij'.overflowed \/ dij'.ret = Some(RPanic) THEN Some(checks)
                ELSE overflow_checks
    /\ IF IsSome(dij'.ret)
       THEN pc' = "returned" /\ Return(call.op, Unwrap(dij'.ret))
       ELSE UNCHANGED <<pc, results>>
    /\ UNCHANGED <<tables, builder, graph, call, bfs, dfs, ast, acy>>

\* the same question is then put to a_search
CallASearch ==
    /\ pc = "returned"
    /\ call' = [call EXCEPT !.op = "a_search"]
    /\ ast' = ASearchInit(call.start)
    /\ pc' = "a_search"
    /\ UNCHANGED <<tables, builder, graph, bfs, dfs, dij, acy, results, overflow_checks>>

ASearchStep ==
    /\ pc = "a_search"
    /\ \E k \in (IF ast.open_set = <<>> THEN {0} ELSE PopCandidates(ast.open_set)),
          checks \in Checks :
          /\ ast' = ASearchIter([ast EXCEPT !.overflowed = FALSE], G, call.end, k, checks)
          /\ overflow_checks' =
                IF ast'.overflowed \/ ast'.ret = Some(RPanic) THEN Some(checks)
                ELSE overflow_checks
    /\ IF IsSome(ast'.ret)
       THEN pc' = "done" /\ Return(call.op, Unwrap(ast'.ret))
       ELSE UNCHANGED <<pc, results>>
    /\ UNCHANGED <<tables, builder, graph, call, bfs, dfs, dij, acy>>

Next ==
    \/ Build
    \/ CallBfs \/ BfsStep
    \/ CallDfs \/ DfsStep
    \/ IsComplete
    \/ IsConnected
    \/ CallIsAcyclic \/ AcyStep

Spec == Init /\ [][Next]_vars

NextW ==
    \/ Build
    \/ CallDijkstra \/ DijStep
    \/ CallASearch \/ ASearchStep

SpecW == InitW /\ [][NextW]_vars

----------------------------------------------------------------------------
(* Graph theory the claims are stated in, defined on the edge rows alone,  *)
(* without any of the operators above that model the searches.             *)

SearchOps == {"breath_first_search", "depth_first_search", "dijkstra_search", "a_search"}
Returned(op) == op \in DOMAIN results

EdgeRows(g) == 1..Len(g.edge_record_batch.source)
Arcs(g) == {<<g.edge_record_batch.source[i], g.edge_record_batch.target[i]>> : i \in EdgeRows(g)}
Successors(g, S) == {a[2] : a \in {b \in Arcs(g) : b[1] \in S}}

\* the nodes a walk of zero or more edges leads to from S
RECURSIVE Closure(_, _)
Closure(g, S) ==
    IF Successors(g, S) \subseteq S THEN S ELSE Closure(g, S \cup Successors(g, S))

\* some sequence of one or more directed edges leads from a to b
Reachable(g, a, b) == b \in Closure(g, Successors(g, {a}))

HasCycle(g) == \E a \in Arcs(g) : Reachable(g, a[1], a[1])

\* the least number of edges of a walk from the frontier to b, d being the
\* number of edges that lead to the frontier; -1 if there is no walk
RECURSIVE Levels(_, _, _, _, _)
Levels(g, frontier, seen, b, d) ==
    IF b \in frontier THEN d
    ELSE IF frontier = {} THEN -1
    ELSE Levels(g, Successors(g, frontier) \ (seen \cup frontier),
                seen \cup frontier, b, d + 1)

MinEdges(g, a, b) == Levels(g, {a}, {}, b, 0)

\* the cost of edge row i: its weight truncated to an unsigned integer
RowCost(g, i) == CastU32(g.edge_record_batch.weight[i])
RowsBetween(g, u, v) ==
    {i \in EdgeRows(g) : g.edge_record_batch.source[i] = u
                         /\ g.edge_record_batch.target[i] = v}

\* the least total cost of the edges along `path` (there may be parallel edges)
RECURSIVE PathCost(_, _)
PathCost(g, path) ==
    IF Len(path) <= 1 THEN 0
    ELSE Min({RowCost(g, i) : i \in RowsBetween(g, path[1], path[2])})
         + PathCost(g, Tail(path))

\* more than the cost of any walk without a repeated node
Infinity == (MaxEdges + MaxWeightedPath + 1) * (U32_MAX + 1)

\* Bellman-Ford in unbounded integers: `rounds` more rounds of relaxing every edge row
RECURSIVE Relaxed(_, _, _)
Relaxed(g, d, rounds) ==
    IF rounds = 0 THEN d
    ELSE Relaxed(g,
                 [v \in DOMAIN d |->
                    Min({d[v]} \cup {d[g.edge_record_batch.source[i]] + RowCost(g, i) :
                                       i \in {j \in EdgeRows(g) :
                                                g.edge_record_batch.target[j] = v}})],
                 rounds - 1)

\* the least total cost of a walk from a to b; at least Infinity if there is none
MinCost(g, a, b) ==
    LET V == GraphIds(g) \cup {a, b}
    IN  Relaxed(g, [v \in V |-> IF v = a THEN 0 ELSE Infinity], Cardinality(V))[b]

IsPathInput(b) ==
    /\ b.nodes = None
    /\ IsSome(b.edges)
    /\ Len(Unwrap(b.edges)) >= 1
    /\ \A i \in 1..Len(Unwrap(b.edges)) :
          Unwrap(b.edges)[i].source_id = i /\ Unwrap(b.edges)[i].target_id = i + 1

\* the row pairs are exactly (i -> i+1), i = 1..k, each once, in any row order
IsPathGraph(g) ==
    /\ num_edges(g) >= 1
    /\ Arcs(g) = {<<i, i + 1>> : i \in 1..num_edges(g)}

----------------------------------------------------------------------------
(* The claims. *)

Iota(j) == [i \in 1..j |-> i]

\* C1: on the graph built from exactly the edges (i -> i+1), i = 1..k, with
\* or without weights, every search from 1 to a j in 1..k returns
\* Some([1, 2, ..., j]).
C1_PathGraphSearch ==
    \A op \in SearchOps :
        (/\ Returned(op)
         /\ IsPathInput(builder)
         /\ call.start = 1
         /\ call.end \in 1..Len(Unwrap(builder.edges)))
        => results[op] = RSome(Iota(call.end))

\* a_search has returned None for an end on the path, where dijkstra_search
\* returned [1..end]: the cost of the edge into the end is u32::MAX
C1_Failure ==
    /\ Returned("a_search")
    /\ IsPathInput(builder)
    /\ call.start = 1
    /\ call.end \in 1..Len(Unwrap(builder.edges))
    /\ results["dijkstra_search"] = RSome(Iota(call.end))
    /\ results["a_search"] = RNone

\* C2: when start /= end and no sequence of directed edges leads from start
\* to end, every search returns None.
C2_NoPathGivesNone ==
    \A op \in SearchOps :
        (/\ Returned(op)
         /\ call.start /= call.end
         /\ ~Reachable(G, call.start, call.end))
        => results[op] = RNone

\* dijkstra_search has panicked on an overflowing addition, where no walk
\* leads from start to end
C2_Failure ==
    /\ Returned("dijkstra_search")
    /\ call.start /= call.end
    /\ ~Reachable(G, call.start, call.end)
    /\ results["dijkstra_search"] = RPanic
    /\ overflow_checks = Some(TRUE)

\* C3: a path breath_first_search returns has the least number of edges of
\* any directed walk from start to end.
C3_BfsShortest ==
    (Returned("breath_first_search") /\ results["breath_first_search"].kind = "Some")
    => Len(results["breath_first_search"].path) - 1 = MinEdges(G, call.start, call.end)

\* breath_first_search has returned a path of two edges on a graph with a
\* cycle through the start, which allows longer walks to the end
C3_Witness ==
    /\ Returned("breath_first_search")
    /\ results["breath_first_search"].kind = "Some"
    /\ Len(results["breath_first_search"].path) = 3
    /\ Reachable(G, call.start, call.start)

\* C4: a path dijkstra_search returns has the least total truncated cost of
\* any directed walk from start to end.
C4_DijkstraMinimal ==
    (Returned("dijkstra_search") /\ results["dijkstra_search"].kind = "Some")
    => PathCost(G, results["dijkstra_search"].path) = MinCost(G, call.start, call.end)

\* dijkstra_search has returned a path that costs more than another walk,
\* after an addition wrapped around
C4_Failure ==
    /\ Returned("dijkstra_search")
    /\ results["dijkstra_search"].kind = "Some"
    /\ overflow_checks = Some(FALSE)
    /\ PathCost(G, results["dijkstra_search"].path) > MinCost(G, call.start, call.end)

\* C5: a_search and dijkstra_search return the same result: both None, or
\* both a path, of the same total truncated cost.
C5_ASearchIsDijkstra ==
    (Returned("dijkstra_search") /\ Returned("a_search"))
    => /\ results["a_search"].kind = results["dijkstra_search"].kind
       /\ results["a_search"].kind = "Some"
            => PathCost(G, results["a_search"].path)
               = PathCost(G, results["dijkstra_search"].path)

\* dijkstra_search has returned a path and a_search None, without any
\* overflowing addition
C5_Failure ==
    /\ Returned("dijkstra_search")
    /\ Returned("a_search")
    /\ results["dijkstra_search"].kind = "Some"
    /\ results["a_search"] = RNone
    /\ overflow_checks = None

\* C6: is_complete returns true if and only if
\* num_edges = num_nodes * (num_nodes - 1) / 2 and num_nodes > 1, and never fails.
C6_IsComplete ==
    Returned("is_complete")
    => results["is_complete"] =
          RBool(/\ num_edges(G) = (num_nodes(G) * (num_nodes(G) - 1)) \div 2
                /\ num_nodes(G) > 1)

\* is_complete has panicked on the graph without nodes and edges
C6_Failure ==
    /\ Returned("is_complete")
    /\ num_nodes(G) = 0
    /\ num_edges(G) = 0
    /\ results["is_complete"] = RPanic

NodeIdSet(g) == Range(g.node_record_batch.node)

\* C7: is_connected returns false without nodes, and otherwise whether the
\* largest node id can be reached from the smallest one (a search from a node
\* to itself finds the path of that node alone).
C7_IsConnected ==
    Returned("is_connected")
    => results["is_connected"] =
          RBool(/\ num_nodes(G) /= 0
                /\ \/ Min(NodeIdSet(G)) = Max(NodeIdSet(G))
                   \/ Reachable(G, Min(NodeIdSet(G)), Max(NodeIdSet(G))))

\* is_connected has returned true on a graph with a node that cannot be
\* reached from the smallest id
C7_Witness ==
    /\ Returned("is_connected")
    /\ results["is_connected"] = RBool(TRUE)
    /\ \E v \in NodeIdSet(G) :
          v /= Min(NodeIdSet(G)) /\ ~Reachable(G, Min(NodeIdSet(G)), v)

\* C8: is_acyclic returns true on the graph built from exactly the edges
\* (i -> i+1), i = 1..n-1, whatever their row order.
C8_PathIsAcyclic ==
    (Returned("is_acyclic") /\ builder.nodes = None /\ IsPathGraph(G))
    => results["is_acyclic"] = RBool(TRUE)

\* is_acyclic has returned true on the path of MaxPath edges
C8_Witness ==
    /\ Returned("is_acyclic")
    /\ IsPathInput(builder)
    /\ num_edges(G) = MaxPath
    /\ results["is_acyclic"] = RBool(TRUE)

\* C9: on a graph built from an edge list without a node list, is_acyclic
\* returns false if the edges contain a directed cycle.
C9_CycleIsFound ==
    (Returned("is_acyclic") /\ builder.nodes = None /\ HasCycle(G))
    => results["is_acyclic"] = RBool(FALSE)

\* is_acyclic has returned false on a graph with a cycle that does not pass
\* through the first node of the node table
C9_Witness ==
    /\ Returned("is_acyclic")
    /\ builder.nodes = None
    /\ HasCycle(G)
    /\ ~Reachable(G, node_id(G, 0), node_id(G, 0))
    /\ results["is_acyclic"] = RBool(FALSE)

\* the ids of the edges' endpoints in list order, each source before its target
Endpoints(edges) ==
    [p \in 1..2 * Len(edges) |->
        IF p % 2 = 1 THEN edges[(p + 1) \div 2].source_id ELSE edges[p \div 2].target_id]
FirstAt(seq, id) == Min({p \in 1..Len(seq) : seq[p] = id})

\* C10: built from edges without a node list, the node table holds exactly
\* the ids of the edges' endpoints, each once, in the order of their first
\* occurrence; num_nodes is their number and num_edges the length of the list.
C10_DerivedNodes ==
    (pc /= "builder" /\ builder.nodes = None /\ IsSome(builder.edges))
    => /\ IsSome(graph)
       /\ LET col == G.node_record_batch.node
              ends == Endpoints(Unwrap(builder.edges))
          IN  /\ Range(col) = Range(ends)
              /\ \A i, j \in 1..Len(col) : i /= j => col[i] /= col[j]
              /\ \A i, j \in 1..Len(col) : i < j => FirstAt(ends, col[i]) < FirstAt(ends, col[j])
              /\ num_nodes(G) = Cardinality(Range(ends))
              /\ num_edges(G) = Len(Unwrap(builder.edges))

\* a graph was built from three edges with repeated endpoints, whose first
\* occurrences are not in numerical order
C10_Witness ==
    /\ pc = "ready"
    /\ builder.nodes = None
    /\ num_edges(G) = 3
    /\ num_nodes(G) = 3
    /\ node_id(G, 0) > node_id(G, 1)
    /\ node_id(G, 1) > node_id(G, 2)

----------------------------------------------------------------------------
(* The weighted searches while the costs stay inside u32.                  *)

RECURSIVE SumCost(_, _)
SumCost(g, i) == IF i > num_edges(g) THEN 0 ELSE RowCost(g, i) + SumCost(g, i + 1)

\* all the edge costs together stay below u32::MAX: no sum of costs along a
\* walk without a repeated edge overflows or reaches the value a_search reads
\* for a node without a g_score
CostsBelowMax == IsSome(graph) /\ SumCost(G, 1) < U32_MAX

\* dijkstra_search and a_search return [1..j] on the weighted paths, while
\* the costs stay below u32::MAX
PathGraphSearchBelowMax == CostsBelowMax => C1_PathGraphSearch

\* dijkstra_search and a_search return None without a walk, while the costs
\* stay below u32::MAX
NoPathGivesNoneBelowMax == CostsBelowMax => C2_NoPathGivesNone

\* dijkstra_search returns a path of least cost in the runs without an
\* overflowing addition
DijkstraMinimalWithoutOverflow == overflow_checks = None => C4_DijkstraMinimal

\* a_search and dijkstra_search agree while the costs stay below u32::MAX
ASearchIsDijkstraBelowMax == CostsBelowMax => C5_ASearchIsDijkstra

----------------------------------------------------------------------------
(* The builder without edges. *)

\* the caller supplied no edge: none set, or an empty list
NoEdgesSupplied(b) == ~IsSome(b.edges) \/ Unwrap(b.edges) = <<>>

\* C11: build() fails with EmptyGraph whenever no edges are supplied (edges
\* not set, or set to an empty list; with or without a node list), so every
\* graph it returns has at least one edge.
C11_EmptyGraph ==
    pc /= "builder"
    => /\ NoEdgesSupplied(builder) => results["build"] = RErr("EmptyGraph")
       /\ IsSome(graph) => num_edges(G) >= 1

\* build() has returned a graph for an empty edge list
C11_Failure ==
    /\ pc = "ready"
    /\ builder.edges = Some(<<>>)
    /\ results["build"] = ROk
    /\ num_edges(G) = 0

----------------------------------------------------------------------------
(* node.rs, edge.rs: the tables on their own.  A caller may wrap any       *)
(* record batch (impl From<RecordBatch>): the wrapped batch is not         *)
(* validated, so its schema may lack a column, type it differently or      *)
(* order the columns differently.  A table keeps the data under the names  *)
(* the code looks columns up by (node, source, target, weight, position);  *)
(* its schema says which of these columns exist, in which order and with   *)
(* which type.                                                             *)

MaxNodeRows == 1
MaxEdgeRows == 2
MaxAppended == 1

Ok(v) == [ok |-> TRUE, err |-> "", value |-> v]
Err(e) == [ok |-> FALSE, err |-> e, value |-> None]

\* what results records of a Result: the value or the error
RValue(v) == [kind |-> "Ok", path |-> <<>>, value |-> v]
RResult(r) == IF r.ok THEN RValue(r.value) ELSE RErr(r.err)

\* Schema::column_with_name: the first field of that name
FieldIndex(schema, name) ==
    LET found == {i \in 1..Len(schema) : schema[i][1] = name}
    IN  IF found = {} THEN None ELSE Some(Min(found))

\* column_by_name(name) followed by downcast_ref to the array type `type`
Column(batch, name, type) ==
    LET i == FieldIndex(batch.schema, name)
    IN  IF ~IsSome(i) THEN Err("ColumnNotFound")
        ELSE IF batch.schema[Unwrap(i)][2] /= type THEN Err("ColumnTypeMismatch")
        ELSE Ok(batch[name])

\* PrimitiveArray::value(idx) does not look at the validity of the slot: a
\* slot written from None holds the default of the type
Float64Value(cell) == IF cell = None THEN F64Default ELSE Unwrap(cell)

\* RecordBatch::num_rows
NumRows(batch) == Len(batch.weight)

\* an accessor that looks its column up before it checks the index
ReadCellColumnFirst(batch, name, type, idx) ==
    LET column == Column(batch, name, type)
    IN  IF ~column.ok THEN column
        ELSE IF idx >= NumRows(batch) THEN Err("IndexOutOfBounds")
        ELSE Ok(column.value[idx + 1])

\* the bound check of every accessor, then the column, then the cell
ReadCell(batch, name, type, idx) ==
    IF idx >= NumRows(batch) THEN Err("IndexOutOfBounds")
    ELSE LET column == Column(batch, name, type)
         IN  IF ~column.ok THEN column ELSE Ok(column.value[idx + 1])

\* NodeRecordBatch
NodeRecordBatch_node_id(batch, idx) == ReadCell(batch, "node", "UInt32", idx)

\* a weight accessor that looks at the validity of the slot: None for a null
NodeRecordBatch_weight_checking_null(batch, idx) == ReadCell(batch, "weight", "Float64", idx)

NodeRecordBatch_weight(batch, idx) ==
    LET cell == ReadCell(batch, "weight", "Float64", idx)
    IN  IF ~cell.ok THEN cell ELSE Ok(Some(Float64Value(cell.value)))

NodeRecordBatch_position(batch, idx) ==
    LET cell == ReadCell(batch, "position", "Float64", idx)
    IN  IF ~cell.ok THEN cell ELSE Ok(Some(Float64Value(cell.value)))

NodeRecordBatch_node(batch, idx) ==
    IF idx >= NumRows(batch) THEN Err("IndexOutOfBounds")
    ELSE LET id == NodeRecordBatch_node_id(batch, idx)
             w  == NodeRecordBatch_weight(batch, idx)
             p  == NodeRecordBatch_position(batch, idx)
         IN  IF ~id.ok THEN id
             ELSE IF ~w.ok THEN w
             ELSE IF ~p.ok THEN p
             ELSE Ok([id |-> id.value, weight |-> w.value, position |-> p.value])

\* EdgeRecordBatch
EdgeRecordBatch_source_id(batch, idx) == ReadCell(batch, "source", "UInt32", idx)
EdgeRecordBatch_target_id(batch, idx) == ReadCell(batch, "target", "UInt32", idx)

EdgeRecordBatch_weight(batch, idx) ==
    LET cell == ReadCell(batch, "weight", "Float64", idx)
    IN  IF ~cell.ok THEN cell ELSE Ok(Some(cell.value))

EdgeRecordBatch_edge(batch, idx) ==
    IF idx >= NumRows(batch) THEN Err("IndexOutOfBounds")
    ELSE LET s == EdgeRecordBatch_source_id(batch, idx)
             t == EdgeRecordBatch_target_id(batch, idx)
             w == EdgeRecordBatch_weight(batch, idx)
         IN  IF ~s.ok THEN s
             ELSE IF ~t.ok THEN t
             ELSE IF ~w.ok THEN w
             ELSE Ok(Edge(s.value, t.value, w.value))

\* neighbors collecting the targets in descending row order
RECURSIVE EdgeNeighborsFromReversed(_, _, _, _)
EdgeNeighborsFromReversed(batch, node, i, found) ==
    IF i >= NumRows(batch) THEN Ok(found)
    ELSE LET e == EdgeRecordBatch_edge(batch, i)
         IN  IF ~e.ok THEN e
             ELSE EdgeNeighborsFromReversed(batch, node, i + 1,
                      IF e.value.source_id = node
                      THEN <<e.value.target_id>> \o found ELSE found)

\* EdgeRecordBatch::neighbors: edge(i)? for every row, then the source test
RECURSIVE EdgeNeighborsFrom(_, _, _, _)
EdgeNeighborsFrom(batch, node, i, found) ==
    IF i >= NumRows(batch) THEN Ok(found)
    ELSE LET e == EdgeRecordBatch_edge(batch, i)
         IN  IF ~e.ok THEN e
             ELSE EdgeNeighborsFrom(batch, node, i + 1,
                      IF e.value.source_id = node
                      THEN Append(found, e.value.target_id) ELSE found)

EdgeRecordBatch_neighbors(batch, node) == EdgeNeighborsFrom(batch, node, 0, <<>>)

\* EdgeRecordBatch::neighbors_with_weights
RECURSIVE EdgeNeighborsWithWeightsFrom(_, _, _, _)
EdgeNeighborsWithWeightsFrom(batch, node, i, found) ==
    IF i >= NumRows(batch) THEN Ok(found)
    ELSE LET e == EdgeRecordBatch_edge(batch, i)
         IN  IF ~e.ok THEN e
             ELSE EdgeNeighborsWithWeightsFrom(batch, node, i + 1,
                      IF e.value.source_id = node
                      THEN Append(found, <<e.value.target_id,
                                           UnwrapOrDefault(e.value.weight)>>)
                      ELSE found)

EdgeRecordBatch_neighbors_with_weights(batch, node) ==
    EdgeNeighborsWithWeightsFrom(batch, node, 0, <<>>)

\* RecordBatch::try_new(schema, arrays) of the arrow library: the arrays are
\* taken as the columns of the schema by position; it fails when their number
\* or the type of one of them differs from the schema's.  The arrays
\* add_edges passes hold no null.
try_new(schema, arrays) ==
    IF Len(schema) /= Len(arrays)
       \/ \E i \in 1..Len(schema) : schema[i][2] /= arrays[i].type
    THEN Err("FailedToAddEdges")
    ELSE Ok([schema |-> schema,
             source |-> arrays[Unwrap(FieldIndex(schema, "source"))].data,
             target |-> arrays[Unwrap(FieldIndex(schema, "target"))].data,
             weight |-> arrays[Unwrap(FieldIndex(schema, "weight"))].data])

\* EdgeRecordBatch::add_edges: the new table on success; on an error the
\* table is left as it is
add_edges(batch, edges) ==
    LET names == <<"source", "target", "weight">>
        types == <<"UInt32", "UInt32", "Float64">>
        appended(k) == [i \in 1..Len(edges) |->
                           IF k = 1 THEN edges[i].source_id
                           ELSE IF k = 2 THEN edges[i].target_id
                           ELSE UnwrapOrDefault(edges[i].weight)]
    IN  IF \E k \in 1..3 : ~IsSome(FieldIndex(batch.schema, names[k]))
        THEN Err("ColumnNotFound")
        ELSE IF \E k \in 1..3 : ~Column(batch, names[k], types[k]).ok
        THEN Err("ColumnTypeMismatch")
        ELSE try_new(batch.schema,
                     [k \in 1..3 |-> [type |-> types[k],
                                      data |-> batch[names[k]] \o appended(k)]])

(* Inputs of the tables: row lists, the schemas of wrapped batches. *)

Attributes == {None, Some(5)}

NodeRows == [id : 1..MaxNodeRows, weight : Attributes, position : Attributes]
EdgeRowsOf(ids) == [source_id : ids, target_id : ids, weight : Attributes]

RowInputs ==
    [nodes : {Some(ns) : ns \in BoundedSeq(NodeRows, MaxNodeRows)},
     edges : {Some(es) : es \in BoundedSeq(EdgeRowsOf(1..2), MaxEdgeRows)}]

AppendedEdges == BoundedSeq({Edge(2, 1, None), Edge(3, 3, Some(7))}, MaxAppended)

\* a schema with field i replaced, and one with fields i and j exchanged
WithField(schema, i, field) == [schema EXCEPT ![i] = field]
Exchanged(schema, i, j) == [schema EXCEPT ![i] = schema[j], ![j] = schema[i]]

NodeSchemas ==
    {NodeSchema,
     WithField(NodeSchema, 2, <<"weight", "Float64", FALSE>>),
     WithField(NodeSchema, 1, <<"node", "UInt64", FALSE>>),
     WithField(NodeSchema, 1, <<"id", "UInt32", FALSE>>),
     RemoveAt(NodeSchema, 3),
     Exchanged(NodeSchema, 2, 3)}

EdgeSchemas ==
    {EdgeSchema,
     WithField(EdgeSchema, 1, <<"source", "UInt32", TRUE>>),
     WithField(EdgeSchema, 3, <<"weight", "Float32", TRUE>>),
     RemoveAt(EdgeSchema, 3),
     RemoveAt(EdgeSchema, 1),
     Exchanged(EdgeSchema, 1, 2),
     Exchanged(EdgeSchema, 2, 3)}

\* a record batch holds no null in a column its schema declares non-nullable
\* (the rows give a null to the weight and position columns only)
NoNullWhereForbidden(batch) ==
    \A i \in 1..Len(batch.schema) :
        (batch.schema[i][1] \in {"weight", "position"} /\ ~batch.schema[i][3])
            => \A k \in 1..NumRows(batch) : IsSome(batch[batch.schema[i][1]][k])

(* The state machine of the tables. *)

InitT == InitWith(RowInputs)

T == Unwrap(tables)

\* impl From<Vec<Node>> for NodeRecordBatch, impl From<Vec<Edge>> for EdgeRecordBatch
FromRows ==
    /\ pc = "builder"
    /\ tables' = Some([node |-> NodeRecordBatchFrom(Unwrap(builder.nodes)),
                       edge |-> EdgeRecordBatchFrom(Unwrap(builder.edges))])
    /\ pc' = "tables"
    /\ Return("from_rows", ROk)
    /\ UNCHANGED <<builder, graph, call, bfs, dfs, dij, ast, acy, overflow_checks>>

\* impl From<RecordBatch>: batches with the caller's rows under a schema of
\* the caller's choice
FromRecordBatches ==
    /\ pc = "builder"
    /\ \E ns \in NodeSchemas, es \in EdgeSchemas :
          LET nodeBatch == [NodeRecordBatchFrom(Unwrap(builder.nodes))
                               EXCEPT !.schema = ns]
              edgeBatch == [EdgeRecordBatchFrom(Unwrap(builder.edges))
                               EXCEPT !.schema = es]
          IN  /\ NoNullWhereForbidden(nodeBatch)
              /\ tables' = Some([node |-> nodeBatch, edge |-> edgeBatch])
    /\ pc' = "tables"
    /\ Return("from_record_batch", ROk)
    /\ UNCHANGED <<builder, graph, call, bfs, dfs, dij, ast, acy, overflow_checks>>

FromArrowRecordBatches ==
    /\ pc = "tables"
    /\ LET r == from_arrow_record_batches(T.node, T.edge)
       IN  /\ graph' = r.graph
           /\ pc' = IF r.ok THEN "ready" ELSE "failed"
           /\ Return("from_arrow_record_batches", IF r.ok THEN ROk ELSE RErr(r.err))
    /\ call' = [op |-> "from_arrow_record_batches"]
    /\ UNCHANGED <<tables, builder, bfs, dfs, dij, ast, acy, overflow_checks>>

\* the indices a caller reads at: those of the rows and two beyond
Indices(batch) == 0..NumRows(batch) + 1

\* a row accessor is called at idx and returns r
Read(op, idx, r) ==
    /\ call' = [op |-> op, idx |-> idx]
    /\ Return(op, RResult(r))
    /\ pc' = "read"
    /\ UNCHANGED <<tables, builder, graph, bfs, dfs, dij, ast, acy, overflow_checks>>

NodeId ==
    pc = "tables" /\ \E idx \in Indices(T.node) :
        Read("node_id", idx, NodeRecordBatch_node_id(T.node, idx))
NodeWeight ==
    pc = "tables" /\ \E idx \in Indices(T.node) :
        Read("node_weight", idx, NodeRecordBatch_weight(T.node, idx))
NodePosition ==
    pc = "tables" /\ \E idx \in Indices(T.node) :
        Read("position", idx, NodeRecordBatch_position(T.node, idx))
NodeRow ==
    pc = "tables" /\ \E idx \in Indices(T.node) :
        Read("node", idx, NodeRecordBatch_node(T.node, idx))
SourceId ==
    pc = "tables" /\ \E idx \in Indices(T.edge) :
        Read("source_id", idx, EdgeRecordBatch_source_id(T.edge, idx))
TargetId ==
    pc = "tables" /\ \E idx \in Indices(T.edge) :
        Read("target_id", idx, EdgeRecordBatch_target_id(T.edge, idx))
EdgeWeight ==
    pc = "tables" /\ \E idx \in Indices(T.edge) :
        Read("edge_weight", idx, EdgeRecordBatch_weight(T.edge, idx))
EdgeRow ==
    pc = "tables" /\ \E idx \in Indices(T.edge) :
        Read("edge", idx, EdgeRecordBatch_edge(T.edge, idx))

\* the ids a caller asks the neighbours of: those of the rows and one more
NeighborIds == 1..4

Neighbors ==
    /\ pc = "tables"
    /\ \E node \in NeighborIds :
          /\ call' = [op |-> "neighbors", node |-> node]
          /\ Return("neighbors", RResult(EdgeRecordBatch_neighbors(T.edge, node)))
    /\ pc' = "read"
    /\ UNCHANGED <<tables, builder, graph, bfs, dfs, dij, ast, acy, overflow_checks>>

NeighborsWithWeights ==
    /\ pc = "tables"
    /\ \E node \in NeighborIds :
          /\ call' = [op |-> "neighbors_with_weights", node |-> node]
          /\ Return("neighbors_with_weights",
                    RResult(EdgeRecordBatch_neighbors_with_weights(T.edge, node)))
    /\ pc' = "read"
    /\ UNCHANGED <<tables, builder, graph, bfs, dfs, dij, ast, acy, overflow_checks>>

\* add_edges replaces the table by the rebuilt one, or fails and leaves it
AddEdges ==
    /\ pc = "tables"
    /\ \E edges \in AppendedEdges :
          LET r == add_edges(T.edge, edges)
          IN  /\ call' = [op |-> "add_edges", edges |-> edges]
              /\ tables' = IF r.ok THEN Some([T EXCEPT !.edge = r.value]) ELSE tables
              /\ Return("add_edges", IF r.ok THEN ROk ELSE RErr(r.err))
    /\ NumRows(T.edge) < MaxEdgeRows + MaxAppended
    /\ UNCHANGED <<builder, graph, pc, bfs, dfs, dij, ast, acy, overflow_checks>>

NextT ==
    \/ FromRows \/ FromRecordBatches
    \/ FromArrowRecordBatches
    \/ NodeId \/ NodeWeight \/ NodePosition \/ NodeRow
    \/ SourceId \/ TargetId \/ EdgeWeight \/ EdgeRow
    \/ Neighbors \/ NeighborsWithWeights
    \/ AddEdges

SpecT == InitT /\ [][NextT]_vars

----------------------------------------------------------------------------
(* Claims about the tables, checked under SpecT. *)

\* the fixed schemas as the specification lists them: name, type, nullable
FixedNodeSchema ==
    << <<"node", "UInt32", FALSE>>, <<"weight", "Float64", TRUE>>,
       <<"position", "Float64", TRUE>> >>
FixedEdgeSchema ==
    << <<"source", "UInt32", FALSE>>, <<"target", "UInt32", FALSE>>,
       <<"weight", "Float64", TRUE>> >>

NodeAccessors == {"node_id", "node_weight", "position", "node"}
EdgeAccessors == {"source_id", "target_id", "edge_weight", "edge"}

\* a row accessor has been called, on the table `table` with `rows` rows
AccessorCalled == pc = "read" /\ call.op \in NodeAccessors \cup EdgeAccessors
TableRead == IF call.op \in NodeAccessors THEN T.node ELSE T.edge
RowCount(table) == Len(table.weight)
SchemaValid(table) ==
    table.schema = IF call.op \in NodeAccessors THEN FixedNodeSchema
                   ELSE FixedEdgeSchema

\* C13: for every node or edge table and every idx >= its row count, each row
\* accessor (node_id, node weight, position, node; source_id, target_id, edge
\* weight, edge) returns IndexOutOfBounds, also when the column is missing or
\* has the wrong type; for idx < row count of a schema-valid table it returns
\* a value, never an error.
C13_IndexOutOfBounds ==
    AccessorCalled =>
        /\ call.idx >= RowCount(TableRead)
               => results[call.op] = RErr("IndexOutOfBounds")
        /\ (call.idx < RowCount(TableRead) /\ SchemaValid(TableRead))
               => results[call.op].kind = "Ok"

\* the index is out of bounds on an edge table without a weight column, and
\* the weight accessor says IndexOutOfBounds
C13_Witness ==
    /\ AccessorCalled /\ call.op = "edge_weight"
    /\ \A i \in 1..Len(T.edge.schema) : T.edge.schema[i][1] /= "weight"
    /\ call.idx >= RowCount(T.edge)
    /\ results["edge_weight"] = RErr("IndexOutOfBounds")

\* the rows i, i+1, .. of an edge table whose source is n, as the accessors
\* read them: target_id(i), and with it the weight of the row
RECURSIVE TargetsFrom(_, _, _)
TargetsFrom(table, n, i) ==
    IF i >= RowCount(table) THEN <<>>
    ELSE (IF EdgeRecordBatch_source_id(table, i) = Ok(n)
          THEN <<EdgeRecordBatch_target_id(table, i).value>> ELSE <<>>)
         \o TargetsFrom(table, n, i + 1)

RECURSIVE TargetsWithWeightsFrom(_, _, _)
TargetsWithWeightsFrom(table, n, i) ==
    IF i >= RowCount(table) THEN <<>>
    ELSE (IF EdgeRecordBatch_source_id(table, i) = Ok(n)
          THEN << <<EdgeRecordBatch_target_id(table, i).value,
                    IF EdgeRecordBatch_weight(table, i).value = None THEN 0
                    ELSE Unwrap(EdgeRecordBatch_weight(table, i).value)>> >>
          ELSE <<>>)
         \o TargetsWithWeightsFrom(table, n, i + 1)

NeighborsCalled == pc = "read" /\ call.op \in {"neighbors", "neighbors_with_weights"}

NeighborsAsClaimed ==
    /\ call.op = "neighbors"
          => results["neighbors"] = RValue(TargetsFrom(T.edge, call.node, 0))
    /\ call.op = "neighbors_with_weights"
          => results["neighbors_with_weights"]
                 = RValue(TargetsWithWeightsFrom(T.edge, call.node, 0))

\* the statement of C14 as written, for every edge table
C14_Neighbors == NeighborsCalled => NeighborsAsClaimed

\* the three columns of every row of the table can be read
RowsReadable(table) ==
    \A i \in 0..RowCount(table) - 1 : EdgeRecordBatch_edge(table, i).ok

\* C14 (amended): for every edge table whose rows can be read (source, target
\* and weight columns present with their types, as in every schema-valid
\* table) or that has no row, and every node id n, neighbors(n) is exactly
\* the sequence of target_id(i) over the rows i with source_id(i) = n in
\* ascending row order, duplicates and self-loops kept, the empty list for an
\* id that is no source; neighbors_with_weights(n) is the same sequence with
\* each row's weight, 0.0 when absent.  On a table with a row and without one
\* of the three columns both fail with the error of edge(i).
C14_NeighborsOfReadableRows ==
    NeighborsCalled =>
        /\ RowsReadable(T.edge) => NeighborsAsClaimed
        /\ ~RowsReadable(T.edge)
              => /\ results[call.op].kind \in {"ColumnNotFound", "ColumnTypeMismatch"}
                 /\ \E i \in 0..RowCount(T.edge) - 1 :
                       results[call.op] = RResult(EdgeRecordBatch_edge(T.edge, i))

\* a node with two equal rows and a self-loop is asked for: all three targets
\* are returned in row order
C14_Witness ==
    /\ NeighborsCalled /\ call.op = "neighbors" /\ RowsReadable(T.edge)
    /\ results["neighbors"].kind = "Ok"
    /\ \E p \in {<<1, 1, 2>>, <<2, 2, 1>>, <<2, 1, 2>>} :
          results["neighbors"].value = p

\* neighbors fails on a table whose source and target columns can be read
C14_Failure ==
    /\ NeighborsCalled /\ call.op = "neighbors"
    /\ RowCount(T.edge) >= 1
    /\ \A i \in 0..RowCount(T.edge) - 1 :
          EdgeRecordBatch_source_id(T.edge, i).ok /\ EdgeRecordBatch_target_id(T.edge, i).ok
    /\ results["neighbors"] = RErr("ColumnNotFound")

\* a step in which add_edges has succeeded
AddEdgesSucceeded ==
    /\ pc = "tables" /\ pc' = "tables"
    /\ call'.op = "add_edges" /\ results'["add_edges"] = ROk

\* the rows before the step are kept, the edges of the call follow them
RowsAppended ==
    LET old == T.edge
        new == Unwrap(tables').edge
        m   == RowCount(old)
        appended == call'.edges
    IN  /\ RowCount(new) = m + Len(appended)
        /\ \A i \in 0..m - 1 :
              /\ EdgeRecordBatch_source_id(new, i) = EdgeRecordBatch_source_id(old, i)
              /\ EdgeRecordBatch_target_id(new, i) = EdgeRecordBatch_target_id(old, i)
              /\ EdgeRecordBatch_weight(new, i) = EdgeRecordBatch_weight(old, i)
        /\ \A k \in 1..Len(appended) :
              /\ EdgeRecordBatch_source_id(new, m + k - 1) = Ok(appended[k].source_id)
              /\ EdgeRecordBatch_target_id(new, m + k - 1) = Ok(appended[k].target_id)
              /\ EdgeRecordBatch_weight(new, m + k - 1)
                    = Ok(Some(IF appended[k].weight = None THEN 0
                              ELSE Unwrap(appended[k].weight)))

\* C15: after a successful add_edges(new) on an edge table with m rows, and
\* so after any sequence of such calls, num_edges is m plus the number of
\* appended edges, every original row i < m has the same source, target and
\* weight at index i, and the appended edges sit at m, m+1, ... in the order
\* given, an absent weight stored as 0.0.
C15_AddEdges == [][AddEdgesSucceeded => RowsAppended]_vars

\* add_edges has succeeded on a wrapped table whose schema lists target
\* before source, and row 0 now reads back with its source and target
\* exchanged
C15_Failure ==
    /\ pc = "tables" /\ Returned("from_record_batch")
    /\ Returned("add_edges") /\ results["add_edges"] = ROk
    /\ T.edge.schema = Exchanged(FixedEdgeSchema, 1, 2)
    /\ Len(Unwrap(builder.edges)) >= 1
    /\ LET row == Unwrap(builder.edges)[1]
       IN  /\ row.source_id /= row.target_id
           /\ EdgeRecordBatch_source_id(T.edge, 0) = Ok(row.target_id)
           /\ EdgeRecordBatch_target_id(T.edge, 0) = Ok(row.source_id)

\* on a table with the fixed schema add_edges succeeds and appends
AddEdgesOnFixedSchema ==
    [][(pc = "tables" /\ pc' = "tables" /\ T.edge.schema = FixedEdgeSchema)
          => (AddEdgesSucceeded /\ RowsAppended)]_vars

\* the rows the tables were built from, and the attribute a row reads back with
NodeList == Unwrap(builder.nodes)
EdgeList == Unwrap(builder.edges)
ReadBack(attribute) == IF attribute = None THEN Some(0) ELSE attribute

\* C16: round trip.  A table built from a list of rows has as many rows as
\* the list; reading row i back through the accessors gives the i-th row's
\* id / source / target exactly, and its weight and position exactly when
\* given; an attribute that was None reads back as present with value 0.0, so
\* the weight and position accessors never return "no value" for a valid
\* index.
C16_RoundTrip ==
    Returned("from_rows") =>
        /\ ~Returned("add_edges")
              => /\ RowCount(T.node) = Len(NodeList)
                 /\ RowCount(T.edge) = Len(EdgeList)
        /\ (AccessorCalled /\ call.op \in NodeAccessors /\ call.idx < Len(NodeList))
              => LET row == NodeList[call.idx + 1]
                     r   == results[call.op]
                 IN  /\ call.op = "node_id" => r = RValue(row.id)
                     /\ call.op = "node_weight" => r = RValue(ReadBack(row.weight))
                     /\ call.op = "position" => r = RValue(ReadBack(row.position))
                     /\ call.op = "node"
                           => r = RValue([id |-> row.id,
                                          weight |-> ReadBack(row.weight),
                                          position |-> ReadBack(row.position)])
                     /\ call.op \in {"node_weight", "position"} => r.value /= None
        /\ (AccessorCalled /\ call.op \in EdgeAccessors /\ call.idx < Len(EdgeList))
              => LET row == EdgeList[call.idx + 1]
                     r   == results[call.op]
                 IN  /\ call.op = "source_id" => r = RValue(row.source_id)
                     /\ call.op = "target_id" => r = RValue(row.target_id)
                     /\ call.op = "edge_weight" => r = RValue(ReadBack(row.weight))
                     /\ call.op = "edge"
                           => r = RValue([source_id |-> row.source_id,
                                          target_id |-> row.target_id,
                                          weight |-> ReadBack(row.weight)])
                     /\ call.op = "edge_weight" => r.value /= None

\* a node row without a weight has been read back: its weight is Some(0.0)
C16_Witness ==
    /\ Returned("from_rows") /\ AccessorCalled /\ call.op = "node_weight"
    /\ call.idx < Len(NodeList)
    /\ NodeList[call.idx + 1].weight = None
    /\ results["node_weight"] = RValue(Some(0))

----------------------------------------------------------------------------
(* Claims about the searches as a whole. *)

WeightedSearchOps == {"dijkstra_search", "a_search"}

\* C17: traversal functions never fail: every search returns Some(path) or
\* None and never aborts; in dijkstra_search and a_search the 32-bit cost plus
\* the truncated weight never exceeds the 32-bit range, the lookups
\* dist[position] and g_score[position] always find an entry, and negative
\* weights contribute cost 0.
C17_NeverFail ==
    /\ \A op \in SearchOps : Returned(op) => results[op].kind \in {"Some", "None"}
    /\ overflow_checks = None

\* a_search has panicked on an overflowing addition although a walk leads
\* from start to end
C17_Failure ==
    /\ Returned("a_search")
    /\ results["a_search"] = RPanic
    /\ overflow_checks = Some(TRUE)
    /\ Reachable(G, call.start, call.end)

\* the parts of C17 that hold: without an overflowing addition no search
\* aborts (the lookups find their entries), and on a path of negative weights
\* every node is reached at cost 0
AbortsOnlyOnOverflow ==
    overflow_checks = None
        => \A op \in SearchOps : Returned(op) => results[op].kind \in {"Some", "None"}

NegativeWeightsCostNothing ==
    (/\ Returned("dijkstra_search") /\ Returned("a_search")
     /\ \E k \in 1..MaxWeightedPath : builder.edges = Some(PathEdges(k, NegativeWeight(k))))
    => /\ overflow_checks = None
       /\ \A n \in DOMAIN dij.dist : dij.dist[n] = 0
       /\ \A n \in DOMAIN ast.g_score : ast.g_score[n] = 0
       /\ Reachable(G, call.start, call.end) /\ call.start /= call.end
             => results["dijkstra_search"].kind = "Some"

\* the graphs all four searches are run on: up to MaxEdges edges that weigh
\* nothing, 2.5 or u32::MAX - 1, and paths of edges that weigh u32::MAX
SearchEdges ==
    {Edge(s, t, w) : s \in 1..MaxNode, t \in 1..MaxNode,
                     w \in {None, Some(5), Some(2 * (U32_MAX - 1))}}

MaxWeight(k) == [i \in 1..k |-> Some(2 * U32_MAX)]

SearchInputs ==
    EdgesOnly(BoundedSeq(SearchEdges, MaxEdges)
              \cup {PathEdges(k, MaxWeight(k)) : k \in 1..MaxWeightedPath})

InitS == InitWith(SearchInputs)

NextS ==
    \/ Build
    \/ CallBfs \/ BfsStep
    \/ CallDfs \/ DfsStep
    \/ CallDijkstra \/ DijStep
    \/ CallASearch \/ ASearchStep

SpecS == InitS /\ [][NextS]_vars

\* C18: every path a search returns is a real path of the graph: it is
\* non-empty, its first element is start, its last element is end, every
\* consecutive pair is the (source, target) of some edge row, and no node id
\* occurs in it twice.
C18_PathIsReal ==
    \A op \in SearchOps :
        (Returned(op) /\ results[op].kind = "Some")
        => LET p == results[op].path
           IN  /\ Len(p) >= 1
               /\ p[1] = call.start
               /\ p[Len(p)] = call.end
               /\ \A i \in 1..Len(p) - 1 :
                     \E r \in EdgeRows(G) :
                        /\ G.edge_record_batch.source[r] = p[i]
                        /\ G.edge_record_batch.target[r] = p[i + 1]
               /\ \A i, j \in 1..Len(p) : i /= j => p[i] /= p[j]

\* dijkstra_search has returned a path of two edges after an addition has
\* wrapped around, on a graph with a cycle through the start
C18_Witness ==
    /\ Returned("dijkstra_search")
    /\ results["dijkstra_search"].kind = "Some"
    /\ Len(results["dijkstra_search"].path) = 3
    /\ overflow_checks = Some(FALSE)
    /\ Reachable(G, call.start, call.start)

\* C19: completeness of the searches: if start = end (whether or not the id
\* occurs in the graph) or some sequence of directed edges leads from start
\* to end, each of the four searches returns Some(path), [start] for
\* start = end; so the four agree on whether a path exists.
C19_Complete ==
    \A op \in SearchOps :
        Returned(op) =>
            /\ call.start = call.end => results[op] = RSome(<<call.start>>)
            /\ Reachable(G, call.start, call.end) => results[op].kind = "Some"

\* a_search has returned None on a path of edges of weight u32::MAX from
\* start to end, without any overflowing addition
C19_Failure ==
    /\ Returned("a_search")
    /\ results["a_search"] = RNone
    /\ overflow_checks = None
    /\ call.start /= call.end
    /\ Reachable(G, call.start, call.end)
    /\ \E k \in 1..MaxWeightedPath : builder.edges = Some(PathEdges(k, MaxWeight(k)))

\* the parts of C19 that hold: start = end gives [start] in every search;
\* breath_first_search and depth_first_search find a path whenever there is a
\* walk; dijkstra_search does unless an addition has overflowed
StartIsEnd ==
    \A op \in SearchOps :
        (Returned(op) /\ call.start = call.end) => results[op] = RSome(<<call.start>>)

UnweightedSearchesComplete ==
    \A op \in {"breath_first_search", "depth_first_search"} :
        (Returned(op) /\ Reachable(G, call.start, call.end)) => results[op].kind = "Some"

DijkstraCompleteWithoutOverflow ==
    (Returned("dijkstra_search") /\ overflow_checks = None
     /\ Reachable(G, call.start, call.end))
    => results["dijkstra_search"].kind = "Some"

\* C20: every call of breath_first_search, depth_first_search,
\* dijkstra_search, a_search, is_connected and is_acyclic terminates on every
\* finite graph, also with directed cycles, self-loops, duplicate edges and
\* zero-weight cycles.
C20_Terminates == \A op \in DOMAIN results : results[op] /= RHang

\* dijkstra_search has reached the end, and the walk back along prev never
\* ends: after a wrapped addition a node on it is its own predecessor
C20_Failure ==
    /\ Returned("dijkstra_search")
    /\ results["dijkstra_search"] = RHang
    /\ overflow_checks = Some(FALSE)
    /\ \E n \in DOMAIN dij.prev : dij.prev[n] = n

\* the parts of C20 that hold.  Without an overflowing addition every walk
\* back ends.
WalkBackEndsWithoutOverflow == overflow_checks = None => C20_Terminates

\* breath_first_search and depth_first_search scan the edges of a node only
\* when it is not yet visited, and mark it visited: a node is expanded once
ExpandedOnce ==
    [][/\ (pc = "breath_first_search" /\ bfs.queue /= <<>>
           /\ bfs'.queue /= Tail(bfs.queue))
          => /\ Head(bfs.queue).node \notin bfs.visited
             /\ bfs'.visited = bfs.visited \cup {Head(bfs.queue).node}
       /\ (pc = "depth_first_search" /\ dfs.stack /= <<>>
           /\ dfs'.stack /= SubSeq(dfs.stack, 1, Len(dfs.stack) - 1))
          => /\ dfs.stack[Len(dfs.stack)].node \notin dfs.visited
             /\ dfs'.visited = dfs.visited \cup {dfs.stack[Len(dfs.stack)].node}]_vars

\* the heap of dijkstra_search and the open set of a_search receive an entry
\* for a node only when it has no recorded cost or the entry's cost is below
\* the one recorded before the step
PushedOnlyWhenCheaper ==
    [][/\ (pc = "dijkstra_search" /\ dij.heap /= <<>>)
          => \A i \in Len(dij.heap)..Len(dij'.heap) :
                \/ dij'.heap[i].position \notin DOMAIN dij.dist
                \/ dij'.heap[i].cost < dij.dist[dij'.heap[i].position]
       /\ (pc = "a_search" /\ ast.open_set /= <<>>)
          => \A i \in Len(ast.open_set)..Len(ast'.open_set) :
                \/ ast'.open_set[i].position \notin DOMAIN ast.g_score
                \/ ast'.open_set[i].cost < ast.g_score[ast'.open_set[i].position]]_vars

\* a recorded cost map has gained a key or lowered a value, and lost nothing
Lowered(old, new) ==
    /\ old /= new
    /\ DOMAIN old \subseteq DOMAIN new
    /\ \A n \in DOMAIN old : new[n] <= old[n]

\* every round of a search loop returns, or marks a node visited (lowers a
\* recorded cost), or shortens the queue (stack, heap, open set) and leaves
\* the visited set (the costs) as they are: the loops end
LoopsProgress ==
    [][/\ pc = "breath_first_search"
          => \/ IsSome(bfs'.ret)
             \/ bfs.visited \subseteq bfs'.visited /\ bfs'.visited /= bfs.visited
             \/ bfs'.visited = bfs.visited /\ Len(bfs'.queue) < Len(bfs.queue)
       /\ pc = "depth_first_search"
          => \/ IsSome(dfs'.ret)
             \/ dfs.visited \subseteq dfs'.visited /\ dfs'.visited /= dfs.visited
             \/ dfs'.visited = dfs.visited /\ Len(dfs'.stack) < Len(dfs.stack)
       /\ pc = "dijkstra_search"
          => \/ IsSome(dij'.ret)
             \/ Lowered(dij.dist, dij'.dist)
             \/ dij'.dist = dij.dist /\ Len(dij'.heap) < Len(dij.heap)
       /\ pc = "a_search"
          => \/ IsSome(ast'.ret)
             \/ Lowered(ast.g_score, ast'.g_score)
             \/ ast'.g_score = ast.g_score /\ Len(ast'.open_set) < Len(ast.open_set)]_vars

----------------------------------------------------------------------------
(* is_acyclic on graphs in which a node is reached along two branches. *)

\* the edges 1->2, 1->3, 2->4, 3->4, in every row order
DiamondEdges == <<Edge(1, 2, None), Edge(1, 3, None), Edge(2, 4, None), Edge(3, 4, None)>>

DiamondInputs ==
    EdgesOnly(Permuted(DiamondEdges))
    \cup {[nodes |-> Some(<<Node(4), Node(1), Node(2), Node(3)>>),
           edges |-> Some(DiamondEdges)]}

InitA ==
    InitWith(GeneralInputs \cup ExplicitInputs \cup PathInputs \cup DiamondInputs)

NextA ==
    \/ Build
    \/ CallIsAcyclic \/ AcyStep

SpecA == InitA /\ [][NextA]_vars

\* the node rows in table order, and the nodes the rounds before round i of
\* the outer loop have visited on a graph without a cycle: every node that
\* can be reached from an earlier row
NodeAt(g, i) == g.node_record_batch.node[i]
VisitedBefore(g, i) == Closure(g, {NodeAt(g, j) : j \in 1..i - 1})

\* the nodes the traversal started in round i visits: none if the node of
\* row i is visited already, else those reached from it and not yet visited
TraversedFrom(g, i) ==
    IF NodeAt(g, i) \in VisitedBefore(g, i) THEN {}
    ELSE Closure(g, {NodeAt(g, i)}) \ VisitedBefore(g, i)

\* a node is reached along two branches of one traversal: two edge rows of
\* that traversal lead to it
TwoBranches(g) ==
    \E i \in 1..Len(g.node_record_batch.node), r1, r2 \in EdgeRows(g) :
        /\ r1 /= r2
        /\ g.edge_record_batch.target[r1] = g.edge_record_batch.target[r2]
        /\ {g.edge_record_batch.source[r1], g.edge_record_batch.source[r2],
            g.edge_record_batch.target[r1]} \subseteq TraversedFrom(g, i)

\* a round of the inner loop of is_acyclic is about to run
InTraversal == pc = "is_acyclic" /\ acy.looping

\* C21: in is_acyclic, during the traversal from one start node,
\* recursion_stack only grows: no node leaves it when the traversal
\* backtracks, it is emptied only once the work stack has drained; a node
\* popped while already in visited makes the result false; so is_acyclic
\* returns false for a graph without a directed cycle in which a node is
\* reached along two branches of one traversal (such as 1->2, 1->3, 2->4,
\* 3->4).
C21_RecursionStackOnlyGrows ==
    /\ [][InTraversal =>
             /\ \/ acy.recursion_stack \subseteq acy'.recursion_stack
                \/ acy.stack = <<>> /\ acy'.recursion_stack = {}
             /\ acy.stack /= <<>> => acy.recursion_stack \subseteq acy'.recursion_stack
             /\ (acy.stack /= <<>> /\ acy.stack[Len(acy.stack)] \in acy.visited)
                   => /\ Returned("is_acyclic")'
                      /\ results'["is_acyclic"] = RBool(FALSE)]_vars
    /\ [](( /\ Returned("is_acyclic")
            /\ ~HasCycle(G)
            /\ TwoBranches(G))
          => results["is_acyclic"] = RBool(FALSE))

\* is_acyclic has returned false on the edges 1->2, 1->3, 2->4, 3->4, which
\* have no directed cycle, with recursion_stack still holding the node 4 that
\* both branches lead to
C21_Witness ==
    /\ Returned("is_acyclic")
    /\ builder = [nodes |-> None, edges |-> Some(DiamondEdges)]
    /\ ~HasCycle(G) /\ TwoBranches(G)
    /\ results["is_acyclic"] = RBool(FALSE)
    /\ 4 \in acy.recursion_stack /\ 4 \in acy.visited

\* on a graph without a directed cycle the answer is false exactly when a
\* node is reached along two branches of one traversal
FalseOnlyForTwoBranches ==
    (Returned("is_acyclic") /\ ~HasCycle(G))
    => (results["is_acyclic"] = RBool(FALSE) <=> TwoBranches(G))

====
